---- MODULE Spec2Model ----
(***************************************************************************)
(* Model of the create-vargas-npm command line tool (the "fuego init"      *)
(* variant with runTask and --task): the ordered task list, the task       *)
(* runner (runTask / run), the top-level dispatch on flags.task, and the   *)
(* three status pollers used by task bodies.                               *)
(***************************************************************************)
EXTENDS Integers, Sequences, FiniteSets, TLC

\* Number of "still in progress" answers the polled service may give to one
\* poller before it has to answer with a terminal status.
MaxPolls == 2

\* Number of pages the hosted-zone listing may have.
MaxPages == 2

(***************************************************************************)
(* The task list.  One entry per element of `tasks`, in source order:      *)
(* title, the skip predicate (by shape) and the shape of the action body.  *)
(*   skip   : "isApp", "notApp", "isAppOrExists", "isAppOrNotReact",       *)
(*            "noGithubToken", "none"                                      *)
(*   body   : "sync"     synchronous fs / validation code (may throw)      *)
(*            "promise"  returns a promise of an SDK / HTTP call           *)
(*            "spawn"    chdir, then a child process; rejects with `code`  *)
(*            "syncSpawn" chdir, then cross-spawn sync()                   *)
(*            "swallow"  HTTP calls whose failures are caught and logged   *)
(*            "prompt"   readline questions only                           *)
(*            "rds", "localdb"  SQL statements over a mysql connection     *)
(*            "log"      console.log only                                  *)
(*            "domain", "terraform", "gh"  bodies ending in a poller       *)
(***************************************************************************)
T(title, skip, body) == [title |-> title, skip |-> skip, body |-> body]

tasks ==
  << T("Validate Package Name", "isApp", "sync"),
     T("Verify site ownership", "notApp", "domain"),
     T("Create RDS DB", "notApp", "rds"),
     T("Create local DB", "notApp", "localdb"),
     T("Make Project Directory", "isAppOrExists", "sync"),
     T("Create Remix Stack", "notApp", "promise"),
     T("Write Package JSON", "isApp", "sync"),
     T("Write Jest Config", "isApp", "sync"),
     T("Write tsconfig.json", "none", "sync"),
     T("Write package main.yaml", "isApp", "sync"),
     T("Write App main.yaml", "notApp", "sync"),
     T("Write api.yaml", "notApp", "sync"),
     T("Write db.yaml", "notApp", "sync"),
     T("Write .gitignore", "none", "sync"),
     T("Write .eslintrc.json", "none", "sync"),
     T("Write LICENSE", "none", "sync"),
     T("Install Dev Packages", "isApp", "spawn"),
     T("Install Packages", "isAppOrNotReact", "spawn"),
     T("Write src", "isApp", "sync"),
     T("Write pages", "notApp", "sync"),
     T("Write tests", "isApp", "sync"),
     T("Set up Clerk", "notApp", "prompt"),
     T("Write main.tf", "notApp", "sync"),
     T("Create a github repo", "noGithubToken", "swallow"),
     T("Add NPM Token", "isApp", "swallow"),
     T("Git init", "none", "syncSpawn"),
     T("Git add", "none", "syncSpawn"),
     T("Git commit", "none", "syncSpawn"),
     T("Git remote", "none", "spawn"),
     T("NPM version", "isApp", "spawn"),
     T("Git push", "notApp", "syncSpawn"),
     T("Create Site Manager", "notApp", "promise"),
     T("Create Workspace And Kick off Run", "notApp", "terraform"),
     T("Write .env", "notApp", "sync"),
     T("Kick off first action", "notApp", "gh"),
     T("Manual Steps to run", "notApp", "log") >>

NumTasks == Len(tasks)
TaskIds == 1..NumTasks
Titles == {tasks[k].title : k \in TaskIds}

\* Values of flags.task: absent, the empty string, a title of the list, or a
\* title that is not in the list.
NoFlag == "<undefined>"
UnknownTitle == "No such task"
TaskFlagValues == {NoFlag, "", UnknownTitle} \cup Titles

(***************************************************************************)
(* Values a task action can throw or reject with, and what the runner      *)
(* makes of them.                                                          *)
(***************************************************************************)
Ok == [kind |-> "ok", msg |-> ""]
ErrorOf(t) == [kind |-> "Error", msg |-> tasks[t].title]
ExitCode == [kind |-> "Number", msg |-> "1"]
NullCode == [kind |-> "Null", msg |-> ""]
Undefined == "<undefined>"
NullTypeError == "TypeError: Cannot read properties of null (reading 'message')"
StartPoll == [kind |-> "poll", msg |-> ""]

\* e.message as the catch callback of runTask reads it (defined for every
\* value but null, where the read itself throws).
MessageOf(e) == IF e.kind = "Error" THEN e.msg ELSE Undefined

(***************************************************************************)
(* Names.  A raw name is an optional npm scope and the dot-separated labels *)
(* of the rest.                                                            *)
(***************************************************************************)
Name(scope, labels) == [scope |-> scope, labels |-> labels]

\* process.argv[2] of the runs considered.
RawNames ==
  { Name("", << "my-lib" >>),
    Name("@dvargas92495", << "my-lib" >>),
    Name("", << "my-app", "example", "com" >>) }

\* rawName.includes(".")
HasDot(n) == Len(n.labels) > 1

\* .replace(/^@dvargas92495\//, "")
StripScope(n) == IF n.scope = "@dvargas92495" THEN Name("", n.labels) ELSE n

\* .replace(/\.davidvargas\.me$/, "")
StripSuffix(n) ==
  LET k == Len(n.labels)
  IN IF k > 2 /\ n.labels[k - 1] = "davidvargas" /\ n.labels[k] = "me"
     THEN Name(n.scope, SubSeq(n.labels, 1, k - 2))
     ELSE n

ProjectName(n) == StripSuffix(StripScope(n))

NoName == Name("", << >>)

(***************************************************************************)
(* Task bodies.  What happens inside the body of a task is one of a few    *)
(* cases per body (the answers of the file system, the child process, the  *)
(* remote services); the case decides what the action settles with, what   *)
(* it has done by then and which environment variables it has set.         *)
(***************************************************************************)
Details(t) ==
  LET b == tasks[t].body
      ti == tasks[t].title
  IN CASE ti = "Validate Package Name" -> {"ok", "invalidName"}
       [] ti = "Create a github repo" ->
            {"exists", "created", "createFails", "checkFails"}
       [] ti = "Add NPM Token" -> {"uploaded", "keyFails", "uploadFails"}
       [] b = "sync" /\ ti # "Validate Package Name" -> {"ok", "fsError"}
       [] b = "promise" -> {"ok", "rejects"}
       [] b = "rds" -> {"ok", "noInstance"}
       [] b = "syncSpawn" -> {"chdirThrows", "exit0", "exitNonZero"}
       [] b = "spawn" -> {"chdirThrows", "exit0", "exitNonZero", "killed"}
       [] b \in {"prompt", "log", "localdb"} -> {"ok"}
       [] b = "domain" ->
            {"owned", "lookupFails", "unavailable", "badContact",
             "registerFails", "registered"}
       [] b = "terraform" -> {"setupFails", "varsOrRunFails", "runKicked"}
       [] b = "gh" -> {"dispatchFails", "runsListFails", "listed"}

\* A caught-and-logged failure inside 'Create a github repo' / 'Add NPM
\* Token' makes the body fail as well.
OutcomeOfSwallowRethrows(t, d) ==
  IF d \in {"createFails", "checkFails", "keyFails", "uploadFails"}
  THEN ErrorOf(t) ELSE Ok

\* What the action settles with (or that it goes on to poll) in each case.
OutcomeOf(t, d) ==
  CASE d \in {"ok", "exit0", "owned", "exists", "created", "uploaded"} -> Ok
    [] d \in {"createFails", "checkFails", "keyFails", "uploadFails"} -> Ok
    [] d = "exitNonZero" ->
         IF tasks[t].body = "spawn" THEN ExitCode ELSE Ok
    [] d = "killed" -> NullCode
    [] d = "varsOrRunFails" -> Ok
    [] d \in {"registered", "runKicked", "listed"} -> StartPoll
    [] d \in {"invalidName", "fsError", "rejects", "noInstance",
              "chdirThrows", "lookupFails", "unavailable", "badContact",
              "registerFails", "setupFails", "dispatchFails",
              "runsListFails"} -> ErrorOf(t)

\* What the body of a task can settle with.
BodyOutcomes(t) == {OutcomeOf(t, d) : d \in Details(t)}

\* The contact validation of 'Verify site ownership' placed after the
\* purchase.
EffectsOfValidateLate(t, d) ==
  IF d \in {"registered", "badContact"} THEN {"registerDomain"} ELSE {}

\* What the body has done to the world outside the process by the time it
\* settles or starts polling.
EffectsOf(t, d) ==
  LET b == tasks[t].body
      ti == tasks[t].title
  IN CASE d = "registered" -> {"registerDomain"}
       [] d \in {"exit0", "exitNonZero", "killed"} -> {"subprocess"}
       [] d = "created" -> {"repo"}
       [] d = "uploaded" -> {"secret"}
       [] d = "varsOrRunFails" -> {"workspace"}
       [] d = "runKicked" -> {"workspace", "tfrun"}
       [] d \in {"runsListFails", "listed"} -> {"dispatch"}
       [] d = "ok" /\ ti = "Make Project Directory" -> {"mkdir"}
       [] d = "ok" /\ ti = "Create Remix Stack" -> {"mkdir", "write"}
       [] d = "ok" /\ ti = "Create Site Manager" -> {"iam", "write"}
       [] d = "ok" /\ b \in {"rds", "localdb"} -> {"database"}
       [] d = "ok" /\ b = "sync" /\ ti \notin {"Validate Package Name",
                                               "Make Project Directory"}
            -> {"write"}
       [] OTHER -> {}

EnvVars == {"CLERK_DNS_ID", "CLERK_API_KEY", "CLERK_DEV_API_KEY",
            "CLERK_DEV_FRONTEND_API", "MYSQL_PASSWORD", "AWS_ACCESS_KEY_ID",
            "AWS_SECRET_ACCESS_KEY"}

\* 'Set up Clerk' without its last question.
EnvWritesNoDnsId(t, d) ==
  LET ti == tasks[t].title
  IN CASE ti = "Set up Clerk" ->
            {"CLERK_DEV_API_KEY", "CLERK_DEV_FRONTEND_API", "CLERK_API_KEY"}
       [] ti = "Create RDS DB" /\ d = "ok" -> {"MYSQL_PASSWORD"}
       [] ti = "Create Site Manager" /\ d = "ok" ->
            {"AWS_ACCESS_KEY_ID", "AWS_SECRET_ACCESS_KEY"}
       [] OTHER -> {}

\* process.env.X = ... in the body of a task.
EnvWrites(t, d) ==
  LET ti == tasks[t].title
  IN CASE ti = "Set up Clerk" ->
            {"CLERK_DEV_API_KEY", "CLERK_DEV_FRONTEND_API", "CLERK_API_KEY",
             "CLERK_DNS_ID"}
       [] ti = "Create RDS DB" /\ d = "ok" -> {"MYSQL_PASSWORD"}
       [] ti = "Create Site Manager" /\ d = "ok" ->
            {"AWS_ACCESS_KEY_ID", "AWS_SECRET_ACCESS_KEY"}
       [] OTHER -> {}

\* process.env.X read in the body of a task as data left by another task.
EnvReads(t, d) ==
  LET ti == tasks[t].title
  IN CASE ti = "Write main.tf" -> {"CLERK_DNS_ID"}
       [] ti = "Create Workspace And Kick off Run"
            /\ d \in {"varsOrRunFails", "runKicked"} ->
            {"AWS_ACCESS_KEY_ID", "AWS_SECRET_ACCESS_KEY", "MYSQL_PASSWORD",
             "CLERK_API_KEY"}
       [] ti = "Write .env" -> {"CLERK_DEV_API_KEY", "CLERK_DEV_FRONTEND_API"}
       [] OTHER -> {}

\* The name field 'Write Package JSON' puts into package.json.
ManifestNameStripped(n) == ProjectName(n)

ManifestName(n) == n

(***************************************************************************)
(* Inside the bodies of 'Verify site ownership', the two database tasks    *)
(* and 'Create Workspace And Kick off Run': what the services answer, the  *)
(* calls the body makes in turn, and the case it ends in.                  *)
(***************************************************************************)
Call(op, arg) == [op |-> op, arg |-> arg]

\* rawName.split(".").slice(-2).join(".")
DomainName(n) ==
  LET k == Len(n.labels)
  IN IF k <= 2 THEN n ELSE Name("", SubSeq(n.labels, k - 1, k))

\* HostedZones.find((i) => i.Name === `${DomainName}.`)
LookupName(n) == DomainName(n)

\* checkDomainAvailability({ DomainName })
AvailabilityName(n) == DomainName(n)

\* registerDomain with the name as typed.
RegisterNameRaw(n) == n

\* registerDomain({ ..., DomainName, ... })
RegisterName(n) == DomainName(n)

\* The pages of listHostedZones: whether the zone of the domain is on each.
ZonePages == UNION {[1..n -> BOOLEAN] : n \in 1..MaxPages}

ContactFields == {"AddressLine1", "AddressLine2", "City", "State", "ZipCode",
                  "PhoneNumber"}

DomainAnswers ==
  [lookup : {"ok", "fails"},
   pages : ZonePages,
   avail : {"AVAILABLE", "UNAVAILABLE"},
   missing : {{}, {"AddressLine2"}},
   register : {"ok", "fails"}]

\* getHostedZoneIdByName looking at the first page only.
HostedZoneFoundFirstPage(pages) == pages[1]

\* getHostedZoneIdByName: the while loop goes through the pages until one
\* has the zone or the listing is not truncated.
HostedZoneFound(pages) == \E k \in 1..Len(pages) : pages[k]

\* The branch of 'Verify site ownership' the answers lead to.
DomainCase(a) ==
  IF a.lookup = "fails" THEN "lookupFails"
  ELSE IF HostedZoneFound(a.pages) THEN "owned"
  ELSE IF a.avail # "AVAILABLE" THEN "unavailable"
  ELSE IF a.missing # {} THEN "badContact"
  ELSE IF a.register = "fails" THEN "registerFails"
  ELSE "registered"

\* The calls 'Verify site ownership' makes, in order.
DomainCalls(n, a) ==
  LET c == DomainCase(a)
  IN << Call("listHostedZones", LookupName(n)) >>
     \o (IF c \in {"lookupFails", "owned"} THEN << >>
         ELSE << Call("checkDomainAvailability", AvailabilityName(n)) >>)
     \o (IF c = "unavailable"
         THEN << Call("getDomainSuggestions", DomainName(n)) >> ELSE << >>)
     \o (IF c \in {"registerFails", "registered"}
         THEN << Call("registerDomain", RegisterName(n)) >> ELSE << >>)

\* The statements of the two database tasks.
SqlStatements ==
  << "CREATE DATABASE", "CREATE USER", "GRANT ALL PRIVILEGES",
     "FLUSH PRIVILEGES" >>

\* instance: describeDBInstances found the instance ('Create RDS DB' only);
\* errs: the statements whose callback reports an error.
DbAnswers(t) ==
  [instance : IF tasks[t].body = "rds" THEN BOOLEAN ELSE {TRUE},
   errs : SUBSET (1..Len(SqlStatements))]

DbCase(a) == IF a.instance THEN "ok" ELSE "noInstance"

\* The chain with callbacks that reject on an error.
DbCallsStopOnError(a) ==
  IF ~a.instance THEN << >>
  ELSE LET bad == {k \in 1..Len(SqlStatements) : k \in a.errs}
           last == IF bad = {} THEN Len(SqlStatements)
                   ELSE CHOOSE k \in bad : \A j \in bad : k <= j
       IN [k \in 1..last |-> Call("query", Name("", << SqlStatements[k] >>))]
          \o (IF bad = {} THEN << Call("end", NoName) >> ELSE << >>)

\* connection.query(statement, resolve) four times in a .then chain, then
\* connection.end(): resolve is the callback, whatever its first argument.
DbCalls(a) ==
  IF ~a.instance THEN << >>
  ELSE [k \in 1..Len(SqlStatements) |->
          Call("query", Name("", << SqlStatements[k] >>))]
       \o << Call("end", NoName) >>

\* The workspace variables posted by 'Create Workspace And Kick off Run'.
VarKeys ==
  << "aws_access_token", "aws_secret_token", "secret", "github_token",
     "mysql_password", "clerk_api_key", "stripe_public", "stripe_secret" >>

\* setup: the two lookups and the workspace post; failedPosts: the variable
\* posts that fail; run: the post of the run.
TerraformAnswers ==
  [setup : {"ok", "fails"},
   failedPosts : SUBSET {"aws_access_token", "stripe_secret"},
   run : {"ok", "fails"}]

TerraformCase(a) ==
  IF a.setup = "fails" THEN "setupFails"
  ELSE IF a.failedPosts # {} \/ a.run = "fails" THEN "varsOrRunFails"
  ELSE "runKicked"

\* The posts of the task, in order (the variable posts are issued together
\* by Promise.all, the run post in the .then that follows it).
TerraformCalls(a) ==
  IF a.setup = "fails" THEN << >>
  ELSE << Call("workspace", NoName) >>
       \o [k \in 1..Len(VarKeys) |-> Call("var", Name("", << VarKeys[k] >>))]
       \o (IF a.failedPosts = {} THEN << Call("run", NoName) >> ELSE << >>)

NoAnswers == [case |-> "none"]

\* What the world can answer to the body of task t.
Answers(t) ==
  LET b == tasks[t].body
  IN CASE b = "domain" -> DomainAnswers
       [] b \in {"rds", "localdb"} -> DbAnswers(t)
       [] b = "terraform" -> TerraformAnswers
       [] OTHER -> {[case |-> d] : d \in Details(t)}

\* The case of Details(t) the answers lead the body to.
CaseOf(t, a) ==
  LET b == tasks[t].body
  IN CASE b = "domain" -> DomainCase(a)
       [] b \in {"rds", "localdb"} -> DbCase(a)
       [] b = "terraform" -> TerraformCase(a)
       [] OTHER -> a.case

\* The calls the body of task t makes (followed for the bodies above only).
CallsOf(t, n, a) ==
  LET b == tasks[t].body
  IN CASE b = "domain" -> DomainCalls(n, a)
       [] b \in {"rds", "localdb"} -> DbCalls(a)
       [] b = "terraform" -> TerraformCalls(a)
       [] OTHER -> << >>

(***************************************************************************)
(* The status pollers.                                                     *)
(***************************************************************************)
Pollers == {"domain", "gh", "terraform"}

\* Status values the polled services answer with (the ones the pollers name
\* and some they do not).
Statuses(p) ==
  CASE p = "domain" -> {"SUBMITTED", "IN_PROGRESS", "SUCCESSFUL", "ERROR", "FAILED"}
    [] p = "gh" -> {"queued", "in_progress", "completed", "waiting"}
    [] p = "terraform" -> {"pending", "planning", "applying", "plan_queued",
                           "applied", "errored", "planned"}

InProgress(p) ==
  CASE p = "domain" -> {"IN_PROGRESS", "SUBMITTED"}
    [] p = "gh" -> {"queued", "in_progress"}
    [] p = "terraform" -> {"pending", "planning", "applying", "plan_queued"}

SuccessTerminal(p) ==
  CASE p = "domain" -> "SUCCESSFUL"
    [] p = "gh" -> "completed"
    [] p = "terraform" -> "applied"

ClassifyRetryOnFailure(p, s) ==
  IF s \in InProgress(p) THEN "again"
  ELSE IF s = SuccessTerminal(p) THEN "done"
  ELSE "again"

\* The if / else if / else of the three pollers.
Classify(p, s) ==
  IF s \in InProgress(p) THEN "again"
  ELSE IF s = SuccessTerminal(p) THEN "done"
  ELSE "fail"

NoPoller == [name |-> "none", checks |-> 0, hist |-> <<>>, result |-> "none"]

(***************************************************************************)
(* State.                                                                  *)
(***************************************************************************)
VARIABLES
  rawName,      \* process.argv[2]
  npmToken,     \* process.env.NPM_TOKEN is set
  detail,       \* the case the body of the current task went through: <<task, case>>
  answers,      \* what the services answered to the body of the current task
  calls,        \* the calls the body of the current task has made, in order
  effects,      \* what the run has done outside the process
  disk,         \* directory made by mkdirSync, name in package.json
  envWritten,   \* <<variable, task>>: variable set by the body of task
  envReadLog,   \* [t, v, w]: task t read variable v, last set by task w
  rawHasDot,    \* rawName.includes(".")
  flags,        \* [app, react, task] as parsed by meow
  githubToken,  \* process.env.GITHUB_TOKEN is set
  dirExists,    \* fs.existsSync(projectName)
  pc,           \* "main", "task", "runSettled", "end", "exited"
  mode,         \* "none", "single", "full"
  cur,          \* the task runTask is working on (0: none)
  phase,        \* position inside runTask
  outcome,      \* what the action's promise settled with
  taskResult,   \* the promise runTask returned
  runPromise,   \* the promise run() returned
  log,          \* console output, in order
  skipEval,     \* tasks whose skip predicate has been evaluated
  skipTrue,     \* tasks whose skip predicate returned true
  invoked,      \* tasks whose action has been invoked
  inflight,     \* tasks whose action has been invoked and has not settled
  failed,       \* tasks whose action threw or returned a rejected promise
  poller,       \* the poller of the running task body
  rlOpen,       \* the readline interface is open
  unhandled,    \* a rejected promise without a handler exists
  exitCode      \* process exit status (-1 while running)

vars == << rawName, npmToken, detail, answers, calls, effects, disk, envWritten, envReadLog,
           rawHasDot, flags, githubToken, dirExists, pc, mode, cur, phase,
           outcome, taskResult, runPromise, log, skipEval, skipTrue, invoked,
           inflight, failed, poller, rlOpen, unhandled, exitCode >>

inputVars == << rawName, npmToken, rawHasDot, flags, githubToken >>
recordVars == << effects, disk, envWritten, envReadLog >>
bodyVars == << detail, answers, calls, effects, disk, envWritten, envReadLog >>

\* isApp without the inference from the name.
isAppFlagOnly == flags.app

\* const isApp = rawName.includes(".") || flags.app || false
isApp == rawHasDot \/ flags.app
isReact == flags.react

Pending == [state |-> "pending", success |-> FALSE, message |-> Undefined]
Fulfilled(ok, m) == [state |-> "fulfilled", success |-> ok, message |-> m]
Rejected(r) == [state |-> "rejected", success |-> FALSE, message |-> r]

Entry(k, t, m) == [k |-> k, t |-> t, m |-> m]

Init ==
  /\ rawName \in RawNames
  /\ npmToken \in BOOLEAN
  /\ detail = {}
  /\ answers = NoAnswers
  /\ calls = << >>
  /\ effects = {}
  /\ disk = [dir |-> NoName, manifest |-> NoName]
  /\ envWritten = {}
  /\ envReadLog = {}
  /\ rawHasDot = HasDot(rawName)
  /\ flags \in [app : BOOLEAN, react : BOOLEAN, task : TaskFlagValues]
  /\ githubToken \in BOOLEAN
  /\ dirExists \in BOOLEAN
  \* An empty --task value starts the same full run as no --task: one such
  \* start is followed.
  /\ flags.task = "" =>
       /\ rawName = Name("", << "my-lib" >>)
       /\ ~flags.app /\ ~flags.react
       /\ githubToken /\ npmToken /\ ~dirExists
  /\ pc = "main"
  /\ mode = "none"
  /\ cur = 0
  /\ phase = "idle"
  /\ outcome = Ok
  /\ taskResult = Pending
  /\ runPromise = Pending
  /\ log = <<>>
  /\ skipEval = {}
  /\ skipTrue = {}
  /\ invoked = {}
  /\ inflight = {}
  /\ failed = {}
  /\ poller = NoPoller
  /\ rlOpen = TRUE
  /\ unhandled = FALSE
  /\ exitCode = -1


(***************************************************************************)
(* runTask                                                                 *)
(***************************************************************************)
\* The predicates with the application-only tasks never skipped.
SkipPredicateNotAppNever(t) ==
  LET k == tasks[t].skip IN
  CASE k = "isApp" -> isApp
    [] k = "isAppOrExists" -> isApp \/ dirExists
    [] k = "isAppOrNotReact" -> isApp \/ ~isReact
    [] k = "noGithubToken" -> ~githubToken
    [] OTHER -> FALSE

\* task.skip?.() : the predicate of the task, false for a task without one.
SkipPredicate(t) ==
  LET k == tasks[t].skip IN
  CASE k = "isApp" -> isApp
    [] k = "notApp" -> ~isApp
    [] k = "isAppOrExists" -> isApp \/ dirExists
    [] k = "isAppOrNotReact" -> isApp \/ ~isReact
    [] k = "noGithubToken" -> ~githubToken
    [] k = "none" -> FALSE

PhaseAfterSkipCheckAlwaysInvoke(skipped) == "invoke"

\* Where runTask goes after the skip check: an early return of a resolved
\* promise, or the promise chain that invokes the action.
PhaseAfterSkipCheck(skipped) == IF skipped THEN "idle" ELSE "invoke"

ChainAfterInvokeNoWait(t) == Fulfilled(TRUE, Undefined)

\* The promise runTask returned once the action has been invoked: the chain
\* waits for what the action returned.
ChainAfterInvoke(t) == Pending

\* The synchronous part of runTask(tasks[t]), with lg the console so far.
RunTaskSync(t, lg) ==
  LET hasSkip == tasks[t].skip # "none"
      skipped == SkipPredicate(t)
  IN /\ cur' = t
     /\ skipEval' = IF hasSkip THEN skipEval \cup {t} ELSE skipEval
     /\ skipTrue' = IF skipped THEN skipTrue \cup {t} ELSE skipTrue
     /\ log' = IF skipped
               THEN lg \o << Entry("Running", t, ""), Entry("Skipped", t, "") >>
               ELSE Append(lg, Entry("Running", t, ""))
     /\ phase' = PhaseAfterSkipCheck(skipped)
     /\ taskResult' = IF skipped THEN Fulfilled(TRUE, Undefined) ELSE Pending
     /\ detail' = {}
     /\ answers' = NoAnswers
     /\ calls' = << >>
     /\ poller' = NoPoller
     /\ pc' = "task"

\* .then((t) => t()) : the action is invoked.
Invoke ==
  /\ pc = "task"
  /\ phase = "invoke"
  /\ invoked' = invoked \cup {cur}
  /\ inflight' = inflight \cup {cur}
  /\ phase' = "body"
  /\ taskResult' = ChainAfterInvoke(cur)
  /\ UNCHANGED << inputVars, bodyVars, dirExists, pc, mode, cur, outcome, runPromise,
                  log, skipEval, skipTrue, failed, poller, rlOpen, unhandled,
                  exitCode >>

\* The task that set an environment variable (0: no task has).
Writer(v) ==
  IF \E w \in TaskIds : << v, w >> \in envWritten
  THEN CHOOSE w \in TaskIds : << v, w >> \in envWritten
  ELSE 0

\* The body of the action returns, throws, settles its promise, or reaches
\* the first call of its poller.
BodySettles ==
  /\ pc = "task"
  /\ phase = "body"
  /\ \E a \in Answers(cur) :
       LET d == CaseOf(cur, a)
           o == OutcomeOf(cur, d)
       IN
       /\ detail' = {<< cur, d >>}
       /\ answers' = a
       /\ calls' = CallsOf(cur, rawName, a)
       /\ effects' = effects \cup EffectsOf(cur, d)
       /\ envWritten' = envWritten \cup {<< v, cur >> : v \in EnvWrites(cur, d)}
       /\ envReadLog' = envReadLog \cup
                          {[t |-> cur, v |-> v, w |-> Writer(v)] :
                             v \in EnvReads(cur, d)}
       /\ disk' = IF d = "ok" /\ tasks[cur].title \in {"Make Project Directory",
                                                       "Create Remix Stack"}
                  THEN [disk EXCEPT !.dir = ProjectName(rawName)]
                  ELSE IF d = "ok" /\ tasks[cur].title = "Write Package JSON"
                  THEN [disk EXCEPT !.manifest = ManifestName(rawName)]
                  ELSE disk
       /\ IF o = StartPoll
          THEN /\ poller' = [name |-> tasks[cur].body, checks |-> 1,
                             hist |-> <<>>, result |-> "none"]
               /\ phase' = "pollReq"
               /\ UNCHANGED << outcome, inflight, failed, dirExists >>
          ELSE /\ outcome' = o
               /\ phase' = "settled"
               /\ inflight' = inflight \ {cur}
               /\ failed' = IF o = Ok THEN failed ELSE failed \cup {cur}
               /\ dirExists' = IF /\ o = Ok
                                  /\ tasks[cur].title \in {"Make Project Directory",
                                                           "Create Remix Stack"}
                               THEN TRUE ELSE dirExists
               /\ UNCHANGED poller
  /\ UNCHANGED << inputVars, pc, mode, cur, taskResult, runPromise, log,
                  skipEval, skipTrue, invoked, rlOpen, unhandled, exitCode >>

\* Number of in-progress answers the poller has received so far.
AgainCount == Cardinality({k \in 1..Len(poller.hist) :
                             poller.hist[k] \in InProgress(poller.name)})

\* What the task body settles with when its poller settles: the body of
\* 'Create Workspace And Kick off Run' ends in a .catch that logs.
BodyAfterPoll(p, t, r) ==
  IF r = "resolved" \/ p = "terraform" THEN Ok ELSE ErrorOf(t)

\* A poller that stops asking after its first check.
GivesUpAfterOne(n) == n >= 1

\* Whether a poller that has made n checks stops asking: the pollers keep
\* no count, an in-progress answer always sets the timer again.
GivesUp(n) == FALSE

\* The .then callback of a poller: the status request has been answered.
PollThen ==
  /\ pc = "task"
  /\ phase = "pollReq"
  /\ \E s \in Statuses(poller.name) :
       /\ s \in InProgress(poller.name) => AgainCount < MaxPolls
       /\ LET c == Classify(poller.name, s)
              h == Append(poller.hist, s)
          IN IF c = "again" /\ ~GivesUp(poller.checks)
             THEN /\ poller' = [poller EXCEPT !.hist = h]
                  /\ phase' = "pollTimer"
                  /\ UNCHANGED << outcome, inflight, failed >>
             ELSE LET r == IF c = "done" THEN "resolved" ELSE "rejected"
                      o == BodyAfterPoll(poller.name, cur, r)
                  IN /\ poller' = [poller EXCEPT !.hist = h, !.result = r]
                     /\ phase' = "settled"
                     /\ outcome' = o
                     /\ inflight' = inflight \ {cur}
                     /\ failed' = IF o = Ok THEN failed ELSE failed \cup {cur}
  /\ UNCHANGED << inputVars, bodyVars, dirExists, pc, mode, cur, taskResult, runPromise,
                  log, skipEval, skipTrue, invoked, rlOpen, unhandled,
                  exitCode >>

\* The status request itself fails (HTTP or SDK error): the poller rejects.
PollRequestFails ==
  /\ pc = "task"
  /\ phase = "pollReq"
  /\ poller' = [poller EXCEPT !.result = "rejected"]
  /\ phase' = "settled"
  /\ outcome' = BodyAfterPoll(poller.name, cur, "rejected")
  /\ inflight' = inflight \ {cur}
  /\ failed' = IF BodyAfterPoll(poller.name, cur, "rejected") = Ok
               THEN failed ELSE failed \cup {cur}
  /\ UNCHANGED << inputVars, bodyVars, dirExists, pc, mode, cur, taskResult, runPromise,
                  log, skipEval, skipTrue, invoked, rlOpen, unhandled,
                  exitCode >>

\* The 30 second timer fires and the poller calls itself again.
PollTimer ==
  /\ pc = "task"
  /\ phase = "pollTimer"
  /\ poller' = [poller EXCEPT !.checks = @ + 1]
  /\ phase' = "pollReq"
  /\ UNCHANGED << inputVars, bodyVars, dirExists, pc, mode, cur, outcome, taskResult,
                  runPromise, log, skipEval, skipTrue, invoked, inflight, failed,
                  rlOpen, unhandled, exitCode >>

\* The .then / .catch callbacks of runTask.
ThenCatch ==
  /\ pc = "task"
  /\ phase = "settled"
  /\ IF outcome = Ok
     THEN /\ log' = Append(log, Entry("Success", cur, ""))
          /\ taskResult' = Fulfilled(TRUE, Undefined)
     ELSE /\ log' = Append(log, Entry("Failed", cur, ""))
          /\ taskResult' = IF outcome.kind = "Null"
                           THEN Rejected(NullTypeError)
                           ELSE Fulfilled(FALSE, MessageOf(outcome))
  /\ phase' = "idle"
  /\ UNCHANGED << inputVars, bodyVars, dirExists, pc, mode, cur, outcome, runPromise,
                  skipEval, skipTrue, invoked, inflight, failed, poller, rlOpen,
                  unhandled, exitCode >>

(***************************************************************************)
(* run                                                                     *)
(***************************************************************************)
NextIndexSkipOne(i) == i + 2

\* The for loop moves to the next element of tasks.
NextIndex(i) == i + 1

\* A failure branch that undoes what the earlier tasks did.
KeptAfterFailureRollback(a) == {}

\* What the failure branch of run() leaves of the things done so far: it
\* prints the 'Skipped task' lines and rejects, nothing else.
KeptAfterFailure(a) == a

\* tasks.slice(tasks.indexOf(task) + 1), one console line each.
RestLines(t) ==
  [j \in 1..(NumTasks - t) |-> Entry("SkippedDue", t + j, "")]

\* run() resumes after `await runTask(task)`.
RunAwait ==
  /\ pc = "task"
  /\ mode = "full"
  /\ taskResult.state # "pending"
  /\ IF taskResult.state = "rejected"
     THEN /\ runPromise' = Rejected(taskResult.message)
          /\ pc' = "runSettled"
          /\ UNCHANGED phase
          /\ UNCHANGED << cur, log, skipEval, skipTrue, taskResult, detail, answers,
                          calls, poller >>
     ELSE IF ~taskResult.success
     THEN /\ log' = log \o RestLines(cur)
          /\ runPromise' = Rejected(taskResult.message)
          /\ pc' = "runSettled"
          /\ UNCHANGED phase
          /\ UNCHANGED << cur, skipEval, skipTrue, taskResult, detail, answers,
                          calls, poller >>
     ELSE IF NextIndex(cur) > NumTasks
     THEN /\ runPromise' = Fulfilled(TRUE, Undefined)
          /\ pc' = "runSettled"
          /\ UNCHANGED phase
          /\ UNCHANGED << cur, log, skipEval, skipTrue, taskResult, detail, answers,
                          calls, poller >>
     ELSE /\ RunTaskSync(NextIndex(cur), log)
          /\ UNCHANGED runPromise
  /\ effects' = IF taskResult.state = "rejected" \/ ~taskResult.success
                THEN KeptAfterFailure(effects) ELSE effects
  /\ UNCHANGED << inputVars, disk, envWritten, envReadLog, dirExists, mode, outcome,
                  invoked, inflight, failed, rlOpen, unhandled, exitCode >>

\* A top level that prints the final message whatever run() settled with.
HandlerLineAlwaysReady(rp) == Entry("Ready", 0, "")

\* The console line of .then(() => console.log(`... is Ready!`)) or of
\* .catch((e) => console.error(e)), whichever runs.
HandlerLine(rp) ==
  IF rp.state = "fulfilled"
  THEN Entry("Ready", 0, "")
  ELSE Entry("ConsoleError", 0, rp.message)

\* run().then(...).catch(...).finally(() => rl.close())
RunHandlers ==
  /\ pc = "runSettled"
  /\ log' = Append(log, HandlerLine(runPromise))
  /\ rlOpen' = FALSE
  /\ pc' = "end"
  /\ UNCHANGED << inputVars, bodyVars, dirExists, mode, cur, phase, outcome, taskResult,
                  runPromise, skipEval, skipTrue, invoked, inflight, failed, poller,
                  unhandled, exitCode >>

(***************************************************************************)
(* Top level                                                               *)
(***************************************************************************)
FindTaskDefaultFirst(title) ==
  LET m == {k \in TaskIds : tasks[k].title = title}
  IN IF m = {} THEN 1 ELSE CHOOSE k \in m : \A j \in m : k <= j

FindTaskOffByOne(title) ==
  LET m == {k \in TaskIds : tasks[k].title = title}
  IN IF m = {} THEN 0
     ELSE LET f == CHOOSE k \in m : \A j \in m : k <= j
          IN IF f < NumTasks THEN f + 1 ELSE f

\* tasks.find((t) => t.title === title) as a position, 0 when there is none.
FindTask(title) ==
  LET m == {k \in TaskIds : tasks[k].title = title}
  IN IF m = {} THEN 0 ELSE CHOOSE k \in m : \A j \in m : k <= j

\* if (flags.task)
Truthy(f) == f # NoFlag /\ f # ""

\* The module body: dispatch on flags.task.
Main ==
  /\ pc = "main"
  /\ IF Truthy(flags.task)
     THEN /\ mode' = "single"
          /\ IF FindTask(flags.task) # 0
             THEN RunTaskSync(FindTask(flags.task), log)
             ELSE /\ log' = Append(log, Entry("NotFound", 0, flags.task))
                  /\ pc' = "end"
                  /\ UNCHANGED << cur, phase, taskResult, skipEval, skipTrue, detail,
                               answers, calls, poller >>
     ELSE /\ mode' = "full"
          /\ RunTaskSync(1, log)
  /\ UNCHANGED << inputVars, recordVars, dirExists, outcome, runPromise, invoked, inflight, failed,
                  rlOpen, unhandled, exitCode >>

\* runTask(task).then((s) => ...) of single-task mode.
SingleThen ==
  /\ pc = "task"
  /\ mode = "single"
  /\ taskResult.state # "pending"
  /\ IF taskResult.state = "rejected"
     THEN /\ unhandled' = TRUE
          /\ UNCHANGED log
     ELSE /\ log' = IF taskResult.success
                    THEN Append(log, Entry("Done", 0, ""))
                    ELSE Append(log, Entry("ConsoleError", 0, taskResult.message))
          /\ UNCHANGED unhandled
  /\ pc' = "end"
  /\ UNCHANGED << inputVars, bodyVars, dirExists, mode, cur, phase, outcome, taskResult,
                  runPromise, skipEval, skipTrue, invoked, inflight, failed, poller,
                  rlOpen, exitCode >>

(***************************************************************************)
(* The end of the process                                                  *)
(***************************************************************************)
\* stdin ends: the readline interface closes itself.
StdinEnd ==
  /\ pc = "end"
  /\ rlOpen
  /\ rlOpen' = FALSE
  /\ UNCHANGED << inputVars, bodyVars, dirExists, pc, mode, cur, phase, outcome,
                  taskResult, runPromise, log, skipEval, skipTrue, invoked,
                  inflight, failed, poller, unhandled, exitCode >>

\* Nothing keeps the event loop alive: the process ends; nothing in the
\* program sets an exit code.
Exit ==
  /\ pc = "end"
  /\ ~unhandled
  /\ ~rlOpen
  /\ exitCode' = 0
  /\ pc' = "exited"
  /\ UNCHANGED << inputVars, bodyVars, dirExists, mode, cur, phase, outcome, taskResult,
                  runPromise, log, skipEval, skipTrue, invoked, inflight, failed,
                  poller, rlOpen, unhandled >>

\* A rejection nobody handles: the runtime either ends the process with
\* status 1 or only prints a warning, depending on its version.
UnhandledRejection ==
  /\ pc = "end"
  /\ unhandled
  /\ \/ /\ exitCode' = 1
        /\ pc' = "exited"
        /\ UNCHANGED unhandled
     \/ /\ unhandled' = FALSE
        /\ UNCHANGED << pc, exitCode >>
  /\ UNCHANGED << inputVars, bodyVars, dirExists, mode, cur, phase, outcome, taskResult,
                  runPromise, log, skipEval, skipTrue, invoked, inflight, failed,
                  poller, rlOpen >>

Next ==
  \/ Main
  \/ Invoke
  \/ BodySettles
  \/ PollThen
  \/ PollRequestFails
  \/ PollTimer
  \/ ThenCatch
  \/ RunAwait
  \/ RunHandlers
  \/ SingleThen
  \/ StdinEnd
  \/ Exit
  \/ UnhandledRejection

Spec == Init /\ [][Next]_vars

\* The status requests are answered, the timers fire and the promise
\* callbacks run.
Fairness ==
  /\ WF_vars(PollThen \/ PollRequestFails)
  /\ WF_vars(PollTimer)
  /\ WF_vars(ThenCatch)
  /\ WF_vars(RunAwait)
  /\ WF_vars(SingleThen)

\* The starts followed under fairness: the full run of an application and
\* the single-task runs of the three polling tasks and of a subprocess task.
LiveInit ==
  /\ Init
  /\ HasDot(rawName)
  /\ ~flags.react /\ githubToken /\ npmToken /\ ~dirExists
  /\ flags.task \in {NoFlag, "Verify site ownership",
                     "Create Workspace And Kick off Run",
                     "Kick off first action", "Git remote"}

LiveSpec == LiveInit /\ [][Next]_vars /\ Fairness


(***************************************************************************)
(* Properties                                                              *)
(***************************************************************************)
HasEntry(k, t) == \E n \in 1..Len(log) : log[n].k = k /\ log[n].t = t
CountEntries(k, t) ==
  Cardinality({n \in 1..Len(log) : log[n].k = k /\ log[n].t = t})
CountKind(k) == Cardinality({n \in 1..Len(log) : log[n].k = k})
IsRunning(e) == e.k = "Running"
RunningLines == SelectSeq(log, IsRunning)
RunOver == pc \in {"runSettled", "end", "exited"}

\* C1: in a full run, a task whose skip predicate returned true never has
\* its action invoked, a 'Skipped' line is printed for it, and the runner
\* goes on to the task that follows it (or, after the last task, the run
\* resolves): the step the runner takes from a skipped task starts the next
\* task, and once the runner has left the skipped task the next task's
\* 'Running' line has been printed.
C1_SkippedNeverInvoked ==
  /\ [](mode = "full" =>
          \A t \in skipTrue :
            /\ t \notin invoked
            /\ HasEntry("Skipped", t)
            /\ (t < NumTasks /\ cur # t) => HasEntry("Running", t + 1))
  /\ [][(mode = "full" /\ pc = "task" /\ cur \in skipTrue)
          => \/ /\ cur < NumTasks
                /\ cur' = cur + 1
                /\ log' = log \o SubSeq(log', Len(log) + 1, Len(log'))
                /\ log'[Len(log) + 1] = Entry("Running", cur + 1, "")
             \/ /\ cur = NumTasks
                /\ runPromise'.state = "fulfilled"]_vars

C1_Witness ==
  /\ mode = "full"
  /\ \E t \in skipTrue : t + 1 \in invoked /\ HasEntry("Skipped", t)

\* C2: in a full run, if the action of the task at position k fails, no task
\* after k has its action invoked and the run is rejected with the message
\* of the value that task failed with.
C2_FailureStopsRunWithMessage ==
  (mode = "full" /\ RunOver /\ failed # {}) =>
     \A k \in failed :
        /\ \A j \in TaskIds : j > k => j \notin invoked
        /\ runPromise.state = "rejected"
        /\ runPromise.message = MessageOf(outcome)

\* C3: when an action fails in a full run, the console shows the 'Failed to
\* run' line of that task followed by one 'Skipped task ... due to failure'
\* line per remaining task in list order; none of those tasks has its skip
\* predicate evaluated or its action invoked; the run then rejects with the
\* triggering message.
C3_FailureThenSkippedDueLines ==
  (mode = "full" /\ pc = "runSettled" /\ failed # {}) =>
     \A k \in failed :
        /\ Len(log) >= NumTasks - k + 1
        /\ SubSeq(log, Len(log) - (NumTasks - k), Len(log))
             = << Entry("Failed", k, "") >> \o RestLines(k)
        /\ \A j \in TaskIds : j > k => j \notin (skipEval \cup invoked)
        /\ runPromise = Rejected(MessageOf(outcome))

\* C4: whatever a task action throws or rejects with, the promise runTask
\* returns is fulfilled with {success: false, message}; it never rejects.
C4_RunTaskNeverRejects ==
  /\ taskResult.state # "rejected"
  /\ (cur \in failed /\ taskResult.state = "fulfilled") => ~taskResult.success

\* C5: tasks start in list order and at most one action is in flight: the
\* skip predicate of a task is evaluated, its 'Running' line printed and its
\* action invoked only when no action is in flight, and in a full run the
\* 'Running' lines printed so far name exactly the first cur tasks of the
\* list, in list order.
C5_OneActionAtATime ==
  /\ [](/\ Cardinality(inflight) <= 1
        /\ inflight \subseteq {cur}
        /\ mode = "full" =>
             /\ Len(RunningLines) = cur
             /\ \A n \in 1..Len(RunningLines) : RunningLines[n].t = n
             /\ invoked \cup skipEval \subseteq 1..cur)
  /\ [][(skipEval' # skipEval \/ invoked' # invoked
           \/ CountKind("Running")' # CountKind("Running"))
          => inflight = {}]_vars

C5_Witness ==
  /\ mode = "full"
  /\ Cardinality(invoked) >= 3
  /\ inflight = {cur}
  /\ phase = "pollTimer"

\* C6: a full run in which no action fails resolves, and exactly one
\* 'Running' line has been printed for every task of the list, skipped tasks
\* included.
C6_AllTasksNotified ==
  (mode = "full" /\ RunOver /\ failed = {}) =>
     /\ runPromise.state = "fulfilled"
     /\ \A t \in TaskIds : CountEntries("Running", t) = 1
     /\ CountKind("Running") = NumTasks

C6_Witness ==
  /\ mode = "full"
  /\ RunOver
  /\ failed = {}
  /\ skipTrue # {}
  /\ CountKind("Running") = NumTasks

C8_SingleTaskTouchesOnlyThatTask ==
  (Truthy(flags.task) /\ flags.task \in Titles /\ pc # "main") =>
     /\ \A t \in skipEval \cup invoked : tasks[t].title = flags.task
     /\ \A n \in 1..Len(log) :
          log[n].t # 0 => tasks[log[n].t].title = flags.task
     /\ tasks[cur].title = flags.task
     /\ CountEntries("Running", cur) = 1
     /\ tasks[cur].skip # "none" => cur \in skipEval
     /\ (pc \in {"end", "exited"} /\ cur \notin skipTrue) => invoked = {cur}
     /\ cur \in skipTrue => invoked = {}

C8_Witness ==
  /\ flags.task = "Git init"
  /\ pc = "end"
  /\ invoked = {FindTask("Git init")}
  /\ skipEval = {}
  /\ HasEntry("Done", 0)

\* C9: for each of the three pollers, a status sequence of N in-progress
\* answers followed by the success status makes the poller resolve after
\* exactly N + 1 status checks, and a failure status makes it reject with no
\* status check after the one that returned it.
C9_PollerChecks ==
  poller.name \in Pollers =>
     LET p == poller.name
         h == poller.hist
         IsFailure(s) == s \notin InProgress(p) /\ s # SuccessTerminal(p)
     IN /\ \A k \in 1..Len(h) :
             h[k] = SuccessTerminal(p) =>
                /\ k = Len(h)
                /\ poller.result = "resolved"
                /\ poller.checks = k
        /\ \A k \in 1..Len(h) :
             IsFailure(h[k]) =>
                /\ k = Len(h)
                /\ poller.result = "rejected"
                /\ poller.checks = k
        /\ poller.result = "resolved" =>
             /\ Len(h) >= 1
             /\ h[Len(h)] = SuccessTerminal(p)
             /\ \A k \in 1..(Len(h) - 1) : h[k] \in InProgress(p)

C9_Witness ==
  /\ poller.name = "terraform"
  /\ poller.result = "resolved"
  /\ Len(poller.hist) = MaxPolls + 1
  /\ poller.checks = MaxPolls + 1
  /\ pc = "end"

\* C10: the process exit status is non-zero whenever a task has failed in
\* the run, and zero when every task of a full run completed.
C10_ExitStatusReflectsFailure ==
  pc = "exited" =>
     /\ failed # {} => exitCode # 0
     /\ (mode = "full" /\ failed = {}) => exitCode = 0

\* Whether the runner has gone past task k of a full run (it only does so
\* after k was skipped or its action succeeded).
Past(k) == mode = "full" /\ (cur > k \/ (RunOver /\ failed = {}))

AppOnlyTitles ==
  {"Verify site ownership", "Create RDS DB", "Create local DB",
   "Create Remix Stack", "Set up Clerk", "Write main.tf", "Git push",
   "Create Site Manager", "Create Workspace And Kick off Run", "Write .env",
   "Kick off first action"}

\* C12: in a full run with a name without a dot and no flags, once the
\* runner is past 'Make Project Directory' the directory named after the
\* project exists (made by the task unless it was there already), once it is
\* past 'Write Package JSON' the manifest names the package with the
\* supplied name, and no domain, database or application-only action is
\* ever invoked.
C12_LibraryRun ==
  (mode = "full" /\ ~HasDot(rawName) /\ ~flags.app /\ ~flags.react) =>
     /\ Past(5) => /\ dirExists
                   /\ 5 \in invoked => disk.dir = ProjectName(rawName)
                   /\ 5 \in invoked \/ 5 \in skipTrue
     /\ Past(7) => /\ 7 \in invoked
                   /\ disk.manifest = rawName
     /\ \A t \in invoked : tasks[t].title \notin AppOnlyTitles

C12_Witness ==
  /\ mode = "full"
  /\ ~flags.app /\ ~flags.react
  /\ rawName = Name("@dvargas92495", << "my-lib" >>)
  /\ 5 \in invoked
  /\ disk.dir = Name("", << "my-lib" >>)
  /\ disk.manifest = rawName
  /\ RunOver
  /\ failed = {}

ValidationErrors == {"invalidName", "badContact"}

\* C14: a validation error (invalid package name, missing contact fields) is
\* raised before the run has done anything outside the process: no
\* directory made, no file written, no domain registered, no other resource
\* created; the task fails, no other action has been or is invoked, and a
\* full run rejects.
C14_ValidationBeforeEffects ==
  \A e \in detail :
     e[2] \in ValidationErrors =>
        /\ effects = {}
        /\ disk = [dir |-> NoName, manifest |-> NoName]
        /\ envWritten = {}
        /\ invoked = {e[1]}
        /\ e[1] \in failed
        /\ (mode = "full" /\ RunOver) => runPromise.state = "rejected"

C14_Witness ==
  /\ << 2, "badContact" >> \in detail
  /\ mode = "full"
  /\ pc = "exited"

\* The optional credentials of the environment the model follows, and the
\* tasks whose bodies send each of them.
Credentials == {"GITHUB_TOKEN", "NPM_TOKEN"}

Present(c) == IF c = "GITHUB_TOKEN" THEN githubToken ELSE npmToken

DependsOn(c) ==
  IF c = "GITHUB_TOKEN"
  THEN {t \in TaskIds : tasks[t].title \in
          {"Create a github repo", "Add NPM Token",
           "Create Workspace And Kick off Run", "Kick off first action"}}
  ELSE {t \in TaskIds : tasks[t].title = "Add NPM Token"}

\* C15: when an optional credential is absent from the environment, no task
\* that depends on it has its action invoked.
C15_AbsentCredentialSkips ==
  \A c \in Credentials :
     ~Present(c) => \A t \in DependsOn(c) : t \notin invoked

\* The tasks whose action runs a subprocess.
SubprocessTasks == {t \in TaskIds : tasks[t].body \in {"spawn", "syncSpawn"}}

\* C16: when the subprocess of a task exits with a non-zero status the task
\* fails, its failure result carries a message, and no later task is run.
C16_NonZeroExitFailsTask ==
  \A e \in detail :
     (e[1] \in SubprocessTasks /\ e[2] = "exitNonZero") =>
        /\ e[1] \in failed
        /\ taskResult.state = "fulfilled" =>
             /\ ~taskResult.success
             /\ taskResult.message # Undefined
        /\ \A j \in TaskIds : j > e[1] => j \notin invoked

\* Status values after which the remote operation does not change state any
\* more.
TerminalStatuses(p) ==
  CASE p = "domain" -> {"SUCCESSFUL", "ERROR", "FAILED"}
    [] p = "gh" -> {"completed"}
    [] p = "terraform" -> {"applied", "errored"}

FailureStatuses(p) == TerminalStatuses(p) \ {SuccessTerminal(p)}

\* C17: when the operation a task polls reaches a failure status, the task
\* fails and no later action is invoked.
C17_FailureStatusHaltsRun ==
  (/\ poller.name \in Pollers
   /\ Len(poller.hist) > 0
   /\ poller.hist[Len(poller.hist)] \in FailureStatuses(poller.name)) =>
     /\ cur \in failed
     /\ taskResult.state = "fulfilled" => ~taskResult.success
     /\ \A j \in TaskIds : j > cur => j \notin invoked

\* C18: a poller stops on terminal status values only (resolving on the
\* success one, rejecting on a failure one); any other answer, named by the
\* poller or not, is followed by another poll after the delay.
C18_OnlyTerminalStatusEndsPolling ==
  poller.name \in Pollers =>
     LET p == poller.name
         h == poller.hist
     IN \A k \in 1..Len(h) :
          /\ h[k] \notin TerminalStatuses(p) =>
               \/ poller.checks > k
               \/ k = Len(h) /\ phase = "pollTimer"
          /\ h[k] \in TerminalStatuses(p) =>
               /\ k = Len(h)
               /\ poller.result = IF h[k] = SuccessTerminal(p)
                                  THEN "resolved" ELSE "rejected"

\* C19: a task that submits a long-running remote operation reports success
\* only after the status of the operation has been polled to a terminal
\* value.
C19_SuccessOnlyAfterTerminalStatus ==
  (/\ poller.name \in Pollers
   /\ taskResult.state = "fulfilled"
   /\ taskResult.success) =>
     /\ Len(poller.hist) > 0
     /\ poller.hist[Len(poller.hist)] \in TerminalStatuses(poller.name)

\* The cases in which a failure is caught and logged inside the body.
Swallowed == {"createFails", "checkFails", "keyFails", "uploadFails"}

\* C20: a failure of the repository check, of the repository creation or of
\* the secret upload does not fail the task: the runner prints its 'Success'
\* line, and in a full run its next step starts the next task of the list.
C20_SwallowedFailureContinues ==
  /\ [](\A e \in detail :
          e[2] \in Swallowed =>
             /\ e[1] = cur
             /\ cur \notin failed
             /\ taskResult.state # "rejected"
             /\ taskResult.state = "fulfilled" =>
                  /\ taskResult.success
                  /\ HasEntry("Success", cur)
             /\ mode = "full" => pc = "task")
  /\ [][(/\ mode = "full"
         /\ taskResult.state = "fulfilled"
         /\ \E e \in detail : e[2] \in Swallowed)
          => /\ cur' = NextIndex(cur)
             /\ pc' = "task"
             /\ log'[Len(log) + 1] = Entry("Running", cur', "")]_vars

C20_Witness ==
  /\ mode = "full"
  /\ << 25, "uploadFails" >> \in detail
  /\ HasEntry("Success", 24)
  /\ HasEntry("Success", 25)

RepoTask == FindTask("Create a github repo")
SecretTask == FindTask("Add NPM Token")

\* C21: in a full run, the runner starts the action of 'Add NPM Token' only
\* coming from a 'Create a github repo' task whose body found the repository
\* or created it.
C21_SecretOnlyAfterRepoExists ==
  [][(mode = "full" /\ cur # SecretTask /\ cur' = SecretTask
        /\ phase' = "invoke")
       => /\ cur = RepoTask
          /\ RepoTask \in invoked
          /\ \E e \in detail : e[1] = RepoTask /\ e[2] \in {"exists", "created"}]_vars

\* C22: once a task has failed, no step of the runner changes what the
\* earlier tasks produced: the things done outside the process, the
\* directory and manifest, the environment variables set.
C22_NoRollbackAfterFailure ==
  [][failed # {} =>
       /\ effects' = effects
       /\ disk' = disk
       /\ envWritten' = envWritten
       /\ dirExists' = dirExists]_vars

C22_Witness ==
  /\ mode = "full"
  /\ failed # {}
  /\ pc = "exited"
  /\ envWritten # {}
  /\ disk.dir # NoName
  /\ {"subprocess", "database", "write"} \subseteq effects

\* C23: when a task has failed and the run (full or single-task) has
\* settled, the message has been written to the console and the readline
\* interface is closed.
C23_ReadlineClosedAfterFailure ==
  (pc = "end" /\ failed # {}) =>
     /\ HasEntry("ConsoleError", 0)
     /\ ~rlOpen

Polling == phase \in {"pollReq", "pollTimer"}

\* C24: a poller has no retry bound.  Every in-progress answer is followed
\* by another check; while the poller is asking, its task is the one in
\* flight, unsettled, and no later task has been started; and since the
\* polled operation ends up answering with something else than in progress,
\* the poller settles, the task settles and the runner leaves the task.
C24_PollingUnbounded ==
  /\ [](poller.name \in Pollers =>
          /\ \A k \in 1..Len(poller.hist) :
               poller.hist[k] \in InProgress(poller.name) =>
                  \/ poller.checks > k
                  \/ k = Len(poller.hist) /\ phase = "pollTimer"
          /\ Polling =>
               /\ inflight = {cur}
               /\ taskResult.state = "pending"
               /\ mode = "full" => invoked \cup skipEval \subseteq 1..cur)
  /\ Polling ~> (~Polling /\ poller.result # "none")
  /\ Polling ~> (taskResult.state # "pending")
  /\ (mode = "full" /\ Polling) ~> (pc # "task" \/ poller.name = "none")

C24_Witness ==
  /\ mode = "full"
  /\ poller.name = "gh"
  /\ poller.checks = MaxPolls + 1
  /\ phase = "pollReq"
  /\ \A k \in 1..Len(poller.hist) : poller.hist[k] \in InProgress("gh")
  /\ Len(poller.hist) = MaxPolls

CountCalls(op) == Cardinality({k \in 1..Len(calls) : calls[k].op = op})
InDomainBody == cur \in TaskIds /\ tasks[cur].body = "domain" /\ detail # {}

\* C25: registerDomain is called at most once in a run, by 'Verify site
\* ownership' only, and only when the hosted-zone lookup found the zone on
\* no page, the availability check answered AVAILABLE and no contact field
\* is missing; in every other case nothing is purchased.
C25_PurchaseOnlyWhenAllowed ==
  LET allowed == /\ answers.lookup = "ok"
                 /\ \A k \in 1..Len(answers.pages) : ~answers.pages[k]
                 /\ answers.avail = "AVAILABLE"
                 /\ answers.missing \cap ContactFields = {}
  IN /\ CountCalls("registerDomain") <= 1
     /\ CountCalls("registerDomain") = 1 => InDomainBody /\ allowed
     /\ (InDomainBody /\ ~allowed) =>
          /\ CountCalls("registerDomain") = 0
          /\ "registerDomain" \notin effects
     /\ "registerDomain" \in effects =>
          \E t \in invoked : tasks[t].body = "domain"

C25_Witness ==
  /\ mode = "full"
  /\ CountCalls("registerDomain") = 1
  /\ Len(answers.pages) = MaxPages
  /\ "registerDomain" \in effects
  /\ poller.result = "resolved"

\* The calls of 'Verify site ownership' that name the domain.
NamingOps == {"listHostedZones", "checkDomainAvailability", "registerDomain"}

AllTasksDone ==
  \A t \in TaskIds : HasEntry("Skipped", t) \/ HasEntry("Success", t)

\* C27: the 'is Ready!' line is printed exactly in the full runs in which
\* every task was skipped or succeeded: when it is printed it is the last
\* line, printed once, after the line that settled the last task, and no
\* 'Failed to run' line was printed; and a full run that has ended without
\* it has a task that neither was skipped nor succeeded.
C27_ReadyIffAllSucceeded ==
  /\ HasEntry("Ready", 0) =>
       /\ mode = "full"
       /\ CountKind("Ready") = 1
       /\ log[Len(log)] = Entry("Ready", 0, "")
       /\ log[Len(log) - 1].t = NumTasks
       /\ log[Len(log) - 1].k \in {"Skipped", "Success"}
       /\ CountKind("Failed") = 0
       /\ failed = {}
       /\ AllTasksDone
  /\ (mode = "full" /\ pc \in {"end", "exited"} /\ ~HasEntry("Ready", 0)) =>
       ~AllTasksDone

C27_Witness ==
  /\ mode = "full"
  /\ pc = "exited"
  /\ HasEntry("Ready", 0)
  /\ HasEntry("Skipped", 1)
  /\ HasEntry("Success", NumTasks)

InTerraformBody ==
  cur \in TaskIds /\ tasks[cur].body = "terraform" /\ detail # {}

\* C28: 'Create Workspace And Kick off Run' posts the run only after the
\* workspace post and all the variable posts, none of which failed; when
\* the workspace creation or a variable post fails, no run is posted and
\* the task fails.
C28_RunOnlyAfterWorkspaceAndVars ==
  InTerraformBody =>
     /\ \A k \in 1..Len(calls) :
          calls[k].op = "run" =>
             /\ k = Len(VarKeys) + 2
             /\ calls[1].op = "workspace"
             /\ \A j \in 2..(k - 1) : calls[j].op = "var"
             /\ answers.setup = "ok"
             /\ answers.failedPosts = {}
     /\ (answers.setup = "fails" \/ answers.failedPosts # {}) =>
          /\ CountCalls("run") = 0
          /\ "tfrun" \notin effects
          /\ cur \in failed

\* The pairs of tasks of which one is for libraries and one for
\* applications; of each of the first three one always runs.
ExclusivePairs ==
  << << "Validate Package Name", "Verify site ownership" >>,
     << "Write package main.yaml", "Write App main.yaml" >>,
     << "NPM version", "Git push" >>,
     << "Make Project Directory", "Create Remix Stack" >> >>

\* C29: in a full run, of each pair of mode-exclusive tasks at most one
\* action is invoked, and of each of the first three pairs exactly one is
\* invoked once the runner is past both.
C29_ExclusiveTasks ==
  mode = "full" =>
     \A p \in 1..Len(ExclusivePairs) :
        LET a == FindTask(ExclusivePairs[p][1])
            b == FindTask(ExclusivePairs[p][2])
        IN /\ a \in TaskIds /\ b \in TaskIds /\ a < b
           /\ ~(a \in invoked /\ b \in invoked)
           /\ (p <= 3 /\ Past(b)) => (a \in invoked \/ b \in invoked)

C29_Witness ==
  /\ mode = "full"
  /\ RunOver /\ failed = {}
  /\ {FindTask("Verify site ownership"), FindTask("Write App main.yaml"),
      FindTask("Git push"), FindTask("Create Remix Stack")} \subseteq invoked

InDbBody ==
  /\ cur \in TaskIds
  /\ tasks[cur].body \in {"rds", "localdb"}
  /\ detail # {}
  /\ answers.instance

\* C30: in 'Create RDS DB' and 'Create local DB' the statements CREATE
\* DATABASE, CREATE USER, GRANT, FLUSH PRIVILEGES are issued in that order,
\* all four whichever of them report an error, the connection is ended once
\* after the last, and the task succeeds.
C30_StatementsInOrderErrorsIgnored ==
  InDbBody =>
     /\ Len(calls) = Len(SqlStatements) + 1
     /\ \A k \in 1..Len(SqlStatements) :
          calls[k] = Call("query", Name("", << SqlStatements[k] >>))
     /\ calls[Len(calls)].op = "end"
     /\ CountCalls("end") = 1
     /\ cur \notin failed
     /\ taskResult.state # "rejected"
     /\ taskResult.state = "fulfilled" =>
          /\ taskResult.success
          /\ HasEntry("Success", cur)

C30_Witness ==
  /\ InDbBody
  /\ tasks[cur].title = "Create RDS DB"
  /\ answers.errs = 1..Len(SqlStatements)
  /\ Len(calls) = 5
  /\ HasEntry("Success", cur)

====
